---------------------------- MODULE Spec2Model ----------------------------
(***************************************************************************)
(* A state-machine model of the QOpenGL3DViewer widget                     *)
(* (src/classes/QOpenGL3DViewer/QOpenGL3DViewer.py) and of the demo        *)
(* harness that feeds it (src/classes/QOpenGL3DViewer/q3dviewer.py).       *)
(*                                                                         *)
(* Every Qt handler runs to completion on the one UI thread, so each       *)
(* handler is one action.  Pointer positions are whole pixels.  The        *)
(* floating-point camera fields are kept as exact fixed-point integers:    *)
(* translate_x and translate_y count units of 1/PanScale, zoom counts      *)
(* units of 1/ZoomScale, so "+= delta * 0.1" is "+= delta" on the scaled   *)
(* value and "+= delta * 0.001" likewise.                                  *)
(***************************************************************************)
EXTENDS Integers, Sequences, FiniteSets, TLC

(***************************************************************************)
(* Bounds of the model.                                                    *)
(***************************************************************************)
\* number of handler invocations explored after construction
MaxEvents == 4
\* number of pointer and wheel events explored when only those arrive
MaxMouseEvents == 6
\* largest value of the demo's cube slider
MaxCubes == 2
\* largest absolute value of a component of a cube size
MaxSize == 2
\* number of handler invocations explored when one cube is set and drawn
MaxCubeEvents == 2
\* number of handler invocations explored when the window is also resized
MaxWindowEvents == 3

(***************************************************************************)
(* Program constants.                                                      *)
(***************************************************************************)
\* translate_x/translate_y are stored in units of 1/10 (the 0.1 pan factor)
PanScale == 10
\* zoom is stored in units of 1/1000 (the 0.001 wheel factor)
ZoomScale == 1000
\* the FPS the demo constructs the viewer with
DefaultFPS == 60

(***************************************************************************)
(* Inputs.                                                                 *)
(***************************************************************************)
\* pointer positions (x, y) an event may carry
Positions == { <<100, 100>>, <<110, 115>>, <<50, 50>>, <<60, 40>> }
\* event.button() values
Buttons == { "left", "right", "middle" }
\* event.angleDelta().y() values of a wheel event
WheelDeltas == { 120, -120 }
\* FPS arguments of change_FPS
FPSValues == { 0, 30, 60 }
\* (w, h) arguments of resizeGL
ViewSizes == { <<4, 3>>, <<4, 0>>, <<0, 0>> }

\* Cube(position, size, rotation, color); every omitted field takes the
\* dataclass default
Cube(position, size, rotation, color) ==
    [position |-> position, size |-> size, rotation |-> rotation, color |-> color]
DefaultSize == <<1, 1>>
DefaultRotation == <<0, 0, 0>>
DefaultColor == <<1, 1, 0>>
\* GroupPoints(points, color)
GroupPoints(pts, color) == [points |-> pts, color |-> color]

YellowCube == Cube(<<0, 0, 0>>, <<2, 2, 2>>, <<0, 0, 0>>, <<1, 1, 0>>)
MirroredCube == Cube(<<1, 2, 3>>, <<-2, 0, 4>>, <<90, 0, 45>>, <<0, 1, 0>>)
PositionOnlyCube == Cube(<<3, 0, 0>>, DefaultSize, DefaultRotation, DefaultColor)
\* cube lists a caller passes to set_cube
CubeLists ==
    { << >>, <<YellowCube>>, <<MirroredCube, YellowCube>>, <<PositionOnlyCube>> }

CyanPoints == GroupPoints(<< <<0, 0, 0>>, <<1, 1, 1>> >>, <<0, 1, 1>>)
EmptyPoints == GroupPoints(<< >>, <<1, 0, 0>>)
\* point-group lists a caller passes to set_points
PointLists == { << >>, <<CyanPoints>>, <<EmptyPoints, CyanPoints>> }

VARIABLES
    \* camera
    angle_x, angle_y, translate_x, translate_y, zoom,
    \* interaction
    last_mouse_position, mouse_pressed, right_mouse_pressed,
    \* scene
    cubes, points,
    \* render_timer
    timer_active, timer_interval,
    \* the OpenGL context: the commands of the last paintGL, the number of
    \* modelview matrices pushed and not popped, and the viewport and the
    \* aspect ratio (a fraction, numerator and denominator) of the projection
    frame, gl_depth, projection,
    \* the exception the last handler raised ("none": it returned)
    error,
    \* history: the last handler run and the number of handlers run
    last_handler, steps,
    \* history of the pointer since the last left/right press or release
    segment,
    \* history: the sum of the wheel deltas received
    wheel_sum,
    \* history of the demo: the number of generate_things calls, the call
    \* that stored cubes and points, and what the last redraw read
    generation, cubes_gen, points_gen, painted_gen

camera == <<angle_x, angle_y, translate_x, translate_y, zoom>>
interaction == <<last_mouse_position, mouse_pressed, right_mouse_pressed>>
scene == <<cubes, points>>
timer == <<timer_active, timer_interval>>
gl == <<frame, gl_depth, projection>>
demo == <<generation, cubes_gen, points_gen>>
vars == <<camera, interaction, scene, timer, gl, error, last_handler, steps,
          segment, wheel_sum, demo, painted_gen>>

\* a handler named h ran and ended with exception e
Handled(h, e) ==
    /\ steps' = steps + 1
    /\ last_handler' = h
    /\ error' = e


(***************************************************************************)
(* The OpenGL command stream.  A command is a record of the call's name,   *)
(* its primitive mode, its numeric arguments and its vertex array.         *)
(***************************************************************************)
Cmd(op, mode, args, verts) == [op |-> op, mode |-> mode, args |-> args, verts |-> verts]
Call(op, args) == Cmd(op, "", args, << >>)

\* the point size draw_points uses by default
PointSize == 2
\* the length of each axis segment
AxisLength == 10

draw_axes ==
    << Cmd("glBegin", "GL_LINES", << >>, << >>),
       Call("glColor3f", <<1, 0, 0>>),
       Call("glVertex3f", <<0, 0, 0>>), Call("glVertex3f", <<AxisLength, 0, 0>>),
       Call("glColor3f", <<0, 1, 0>>),
       Call("glVertex3f", <<0, 0, 0>>), Call("glVertex3f", <<0, AxisLength, 0>>),
       Call("glColor3f", <<0, 0, 1>>),
       Call("glVertex3f", <<0, 0, 0>>), Call("glVertex3f", <<0, 0, AxisLength>>),
       Call("glEnd", << >>) >>

\* variant: the last edge runs across a face
edges_with_diagonal ==
    << <<1, 2>>, <<2, 3>>, <<3, 4>>, <<4, 1>>,
       <<5, 6>>, <<6, 7>>, <<7, 8>>, <<8, 5>>,
       <<1, 5>>, <<2, 6>>, <<3, 7>>, <<4, 6>> >>

\* the 12 index pairs of draw_cube, 1-based
edges ==
    << <<1, 2>>, <<2, 3>>, <<3, 4>>, <<4, 1>>,
       <<5, 6>>, <<6, 7>>, <<7, 8>>, <<8, 5>>,
       <<1, 5>>, <<2, 6>>, <<3, 7>>, <<4, 8>> >>

\* the 8 corners of draw_cube; coordinates are in units of 1/2, so that
\* half_size = size / 2.0 has the components of size
vertices(size) ==
    LET h == size IN
    << <<-h[1], -h[2], -h[3]>>, << h[1], -h[2], -h[3]>>,
       << h[1],  h[2], -h[3]>>, <<-h[1],  h[2], -h[3]>>,
       <<-h[1], -h[2],  h[3]>>, << h[1], -h[2],  h[3]>>,
       << h[1],  h[2],  h[3]>>, <<-h[1],  h[2],  h[3]>> >>

\* vertices[edges].reshape(-1, 3): the two corners of every edge, in order
line_vertices(size) ==
    [k \in 1..(2 * Len(edges)) |->
        vertices(size)[edges[(k + 1) \div 2][IF k % 2 = 1 THEN 1 ELSE 2]]]

\* draw_cube(size): the commands issued and the exception raised; reading
\* half_size[2] of a size with fewer than 3 components raises IndexError
\* before any command is issued
draw_cube(size) ==
    IF Len(size) < 3
    THEN [cmds |-> << >>, err |-> "IndexError"]
    ELSE [cmds |-> << Call("glEnableClientState", << >>),
                      Cmd("glVertexPointer", "", <<3, 0>>, line_vertices(size)),
                      Cmd("glDrawArrays", "GL_LINES", <<0, Len(line_vertices(size))>>, << >>),
                      Call("glDisableClientState", << >>) >>,
          err |-> "none"]

\* draw_points(points): nothing for an empty array
draw_points(pts) ==
    IF Len(pts) = 0
    THEN << >>
    ELSE << Call("glPointSize", <<PointSize>>),
            Call("glEnableClientState", << >>),
            Cmd("glVertexPointer", "", <<3, 0>>, pts),
            Cmd("glDrawArrays", "GL_POINTS", <<0, Len(pts)>>, << >>),
            Call("glDisableClientState", << >>) >>

\* the cube loop of paintGL over cs; an exception of draw_cube leaves the loop
\* (and paintGL) with the cube's matrix still pushed
RECURSIVE render_cubes(_)
render_cubes(cs) ==
    IF Len(cs) = 0
    THEN [cmds |-> << >>, err |-> "none"]
    ELSE LET cube == Head(cs)
             box == draw_cube(cube.size)
             before == << Call("glPushMatrix", << >>),
                          Call("glTranslatef", cube.position),
                          Call("glColor3f", cube.color),
                          Call("glRotatef", <<cube.rotation[1], 1, 0, 0>>),
                          Call("glRotatef", <<cube.rotation[2], 0, 1, 0>>),
                          Call("glRotatef", <<cube.rotation[3], 0, 0, 1>>) >>
         IN IF box.err # "none"
            THEN [cmds |-> before \o box.cmds, err |-> box.err]
            ELSE LET rest == render_cubes(Tail(cs))
                 IN [cmds |-> before \o box.cmds \o << Call("glPopMatrix", << >>) >>
                              \o rest.cmds,
                     err |-> rest.err]

\* the point loop of paintGL over gs
RECURSIVE render_points(_)
render_points(gs) ==
    IF Len(gs) = 0
    THEN << >>
    ELSE << Call("glColor3f", Head(gs).color) >> \o draw_points(Head(gs).points)
         \o render_points(Tail(gs))

\* variant: the rotation about Y is applied before the one about X
camera_transform_y_first ==
    << Call("glLoadIdentity", << >>),
       Call("glTranslatef", <<translate_x, translate_y, zoom>>),
       Call("glRotatef", <<angle_y, 0, 1, 0>>),
       Call("glRotatef", <<angle_x, 1, 0, 0>>) >>

\* the camera transform of paintGL (translate_x, translate_y in units of
\* 1/PanScale, zoom in units of 1/ZoomScale)
camera_transform ==
    << Call("glLoadIdentity", << >>),
       Call("glTranslatef", <<translate_x, translate_y, zoom>>),
       Call("glRotatef", <<angle_x, 1, 0, 0>>),
       Call("glRotatef", <<angle_y, 0, 1, 0>>) >>

\* the commands of one paintGL and the exception that ends it
render ==
    LET boxes == render_cubes(cubes)
        head == << Call("glClear", << >>) >> \o camera_transform \o draw_axes
    IN IF boxes.err # "none"
       THEN [cmds |-> head \o boxes.cmds, err |-> boxes.err]
       ELSE [cmds |-> head \o boxes.cmds \o render_points(points), err |-> "none"]

(***************************************************************************)
(* Construction: QOpenGL3DViewer.__init__(FPS = DefaultFPS).               *)
(***************************************************************************)
\* render_timer.start(1000 / FPS): the binding truncates the float to int
interval_of(FPS) == 1000 \div FPS

Init ==
    /\ angle_x = 0
    /\ angle_y = 0
    /\ translate_x = 0
    /\ translate_y = 0
    /\ zoom = -8 * ZoomScale
    /\ last_mouse_position = <<0, 0>>
    /\ mouse_pressed = FALSE
    /\ right_mouse_pressed = FALSE
    /\ cubes = << >>
    /\ points = << >>
    /\ timer_active = TRUE
    /\ timer_interval = interval_of(DefaultFPS)
    /\ frame = << >>
    /\ gl_depth = 0
    /\ projection = [viewport |-> << >>, aspect |-> << >>]
    /\ error = "none"
    /\ last_handler = "__init__"
    /\ steps = 0
    /\ segment = [cause |-> "init", button |-> "none", other_held |-> FALSE,
                  p0 |-> <<0, 0>>, at |-> <<0, 0>>,
                  camera0 |-> <<0, 0, 0, 0, -8 * ZoomScale>>, wheel0 |-> 0,
                  sum_dx |-> 0, sum_dy |-> 0, moves |-> 0]
    /\ wheel_sum = 0
    /\ generation = 0
    /\ cubes_gen = 0
    /\ points_gen = 0
    /\ painted_gen = <<0, 0>>

(***************************************************************************)
(* Mouse events.                                                           *)
(***************************************************************************)
\* whether the button other than b (of left and right) is held
other_held(b) == IF b = "left" THEN right_mouse_pressed ELSE mouse_pressed

\* the history after a left/right press (cause "press", at the event's
\* position pos) or release (cause "release", at the reference position):
\* a new segment starts, remembering the camera and the wheel sum
segment_start(cause, b, pos) ==
    IF b \in {"left", "right"}
    THEN [cause |-> cause, button |-> b, other_held |-> other_held(b),
          p0 |-> pos, at |-> pos, camera0 |-> camera, wheel0 |-> wheel_sum,
          sum_dx |-> 0, sum_dy |-> 0, moves |-> 0]
    ELSE segment

\* the history after a move to pos: one more per-step delta, taken from the
\* position of the event before it
segment_move(pos) ==
    [segment EXCEPT !.sum_dx = @ + (pos[1] - segment.at[1]),
                    !.sum_dy = @ + (pos[2] - segment.at[2]),
                    !.moves = @ + 1,
                    !.at = pos]

\* the button flags after a press
press_flags(button) ==
    /\ mouse_pressed' = (IF button = "left" THEN TRUE ELSE mouse_pressed)
    /\ right_mouse_pressed' =
          (IF button = "left" THEN right_mouse_pressed
           ELSE IF button = "right" THEN TRUE ELSE right_mouse_pressed)

\* variant: only a left press records the reference position
press_reference_left_only(button, pos) ==
    last_mouse_position' = (IF button = "left" THEN pos ELSE last_mouse_position)

\* the reference position after a press: a left or right press records it
press_reference(button, pos) ==
    last_mouse_position' =
        (IF button = "left" THEN pos
         ELSE IF button = "right" THEN pos ELSE last_mouse_position)

\* the exception of a press: the middle branch calls add_cube_at_center,
\* which no class of the repository defines
press_error(button) ==
    IF button = "left" THEN "none"
    ELSE IF button = "right" THEN "none"
    ELSE IF button = "middle" THEN "AttributeError" ELSE "none"

mousePressEvent(button, pos) ==
    /\ Handled("mousePressEvent", press_error(button))
    /\ press_flags(button)
    /\ press_reference(button, pos)
    /\ segment' = segment_start("press", button, pos)
    /\ UNCHANGED <<camera, scene, timer, gl, wheel_sum, demo, painted_gen>>

\* delta = current_position - self.last_mouse_position
move_delta(pos) ==
    <<pos[1] - last_mouse_position[1], pos[2] - last_mouse_position[2]>>

\* variant: the right button is tested first
move_branch_right_first ==
    IF right_mouse_pressed THEN "pan"
    ELSE IF mouse_pressed THEN "rotate" ELSE "idle"

\* the branch of mouseMoveEvent: if mouse_pressed ... elif right_mouse_pressed
move_branch ==
    IF mouse_pressed THEN "rotate"
    ELSE IF right_mouse_pressed THEN "pan" ELSE "idle"

\* variant: the axes exchanged
rotate_swapped(delta) ==
    /\ angle_x' = angle_x + delta[1]
    /\ angle_y' = angle_y + delta[2]

\* angle_x += delta.y(); angle_y += delta.x()
rotate(delta) ==
    /\ angle_x' = angle_x + delta[2]
    /\ angle_y' = angle_y + delta[1]

\* variant: the vertical pan not inverted
pan_y_not_inverted(delta) ==
    /\ translate_x' = translate_x + delta[1]
    /\ translate_y' = translate_y + delta[2]

\* translate_x += delta.x() * 0.1; translate_y -= delta.y() * 0.1
\* (in units of 1/PanScale)
pan(delta) ==
    /\ translate_x' = translate_x + delta[1]
    /\ translate_y' = translate_y - delta[2]

\* variant: the two buttons tested one after the other, not if ... elif
mouseMoveEvent_two_ifs(pos) ==
    /\ Handled("mouseMoveEvent", "none")
    /\ IF mouse_pressed THEN rotate(move_delta(pos))
                         ELSE UNCHANGED <<angle_x, angle_y>>
    /\ IF right_mouse_pressed THEN pan(move_delta(pos))
                               ELSE UNCHANGED <<translate_x, translate_y>>
    /\ last_mouse_position' =
          (IF mouse_pressed \/ right_mouse_pressed THEN pos ELSE last_mouse_position)
    /\ segment' = segment_move(pos)
    /\ UNCHANGED <<zoom, mouse_pressed, right_mouse_pressed, scene, timer, gl,
                   wheel_sum, demo, painted_gen>>

mouseMoveEvent(pos) ==
    /\ Handled("mouseMoveEvent", "none")
    /\ CASE move_branch = "rotate" ->
              /\ rotate(move_delta(pos))
              /\ last_mouse_position' = pos
              /\ UNCHANGED <<translate_x, translate_y>>
         [] move_branch = "pan" ->
              /\ pan(move_delta(pos))
              /\ last_mouse_position' = pos
              /\ UNCHANGED <<angle_x, angle_y>>
         [] OTHER ->
              UNCHANGED <<angle_x, angle_y, translate_x, translate_y,
                          last_mouse_position>>
    /\ segment' = segment_move(pos)
    /\ UNCHANGED <<zoom, mouse_pressed, right_mouse_pressed, scene, timer, gl,
                   wheel_sum, demo, painted_gen>>

\* variant: a left or right release clears both flags
release_flags_both(button) ==
    /\ mouse_pressed' = (IF button \in {"left", "right"} THEN FALSE ELSE mouse_pressed)
    /\ right_mouse_pressed' =
          (IF button \in {"left", "right"} THEN FALSE ELSE right_mouse_pressed)

\* the button flags after a release
release_flags(button) ==
    /\ mouse_pressed' = (IF button = "left" THEN FALSE ELSE mouse_pressed)
    /\ right_mouse_pressed' =
          (IF button = "left" THEN right_mouse_pressed
           ELSE IF button = "right" THEN FALSE ELSE right_mouse_pressed)

mouseReleaseEvent(button) ==
    /\ Handled("mouseReleaseEvent", "none")
    /\ release_flags(button)
    /\ segment' = segment_start("release", button, last_mouse_position)
    /\ UNCHANGED <<camera, last_mouse_position, scene, timer, gl, wheel_sum,
                   demo, painted_gen>>

\* variant: the wheel zooms only while no button is held
zoom_by_when_idle(delta) ==
    zoom' = (IF mouse_pressed \/ right_mouse_pressed THEN zoom ELSE zoom + delta)

\* variant: the zoom is set from its initial value, not from its current one
zoom_by_from_start(delta) == zoom' = -8 * ZoomScale + delta

\* self.zoom += delta * 0.001 (in units of 1/ZoomScale)
zoom_by(delta) == zoom' = zoom + delta

wheelEvent(delta) ==
    /\ Handled("wheelEvent", "none")
    /\ zoom_by(delta)
    /\ wheel_sum' = wheel_sum + delta
    /\ UNCHANGED <<angle_x, angle_y, translate_x, translate_y, interaction,
                   scene, timer, gl, segment, demo, painted_gen>>

(***************************************************************************)
(* The scene setters, the frame clock and the redraw.                      *)
(***************************************************************************)
\* variant: the new cubes are appended to the stored ones
set_cube_appending(cs, caller) ==
    /\ cubes' = cubes \o cs
    /\ cubes_gen' = caller

\* self.cubes = cubes; caller is the generate_things call that passes the
\* list, 0 for any other caller
set_cube(cs, caller) ==
    /\ cubes' = cs
    /\ cubes_gen' = caller

\* self.points = points
set_points(gs, caller) ==
    /\ points' = gs
    /\ points_gen' = caller

\* a caller other than the demo's generator calls set_cube
call_set_cube(cs) ==
    /\ Handled("set_cube", "none")
    /\ set_cube(cs, 0)
    /\ UNCHANGED <<camera, interaction, points, points_gen, generation, timer,
                   gl, segment, wheel_sum, painted_gen>>

\* a caller other than the demo's generator calls set_points
call_set_points(gs) ==
    /\ Handled("set_points", "none")
    /\ set_points(gs, 0)
    /\ UNCHANGED <<camera, interaction, cubes, cubes_gen, generation, timer,
                   gl, segment, wheel_sum, painted_gen>>

\* variant: a running timer is left as it is
change_FPS_only_when_stopped(FPS) ==
    /\ Handled("change_FPS", IF FPS = 0 THEN "ZeroDivisionError" ELSE "none")
    /\ IF FPS = 0 \/ timer_active
       THEN UNCHANGED <<timer_active, timer_interval>>
       ELSE /\ timer_active' = TRUE
            /\ timer_interval' = interval_of(FPS)
    /\ UNCHANGED <<camera, interaction, scene, gl, segment, wheel_sum, demo,
                   painted_gen>>

\* change_FPS(FPS): stop() when active, then start(1000 / FPS); with FPS = 0
\* the division raises after the stop and before the start
change_FPS(FPS) ==
    /\ Handled("change_FPS", IF FPS = 0 THEN "ZeroDivisionError" ELSE "none")
    /\ IF FPS = 0
       THEN /\ timer_active' = FALSE
            /\ UNCHANGED timer_interval
       ELSE /\ timer_active' = TRUE
            /\ timer_interval' = interval_of(FPS)
    /\ UNCHANGED <<camera, interaction, scene, gl, segment, wheel_sum, demo,
                   painted_gen>>

\* paintGL: the commands go to the context up to the exception, if any; a
\* cube whose draw_cube raised leaves its matrix pushed
paintGL ==
    /\ Handled("paintGL", render.err)
    /\ frame' = render.cmds
    /\ gl_depth' = gl_depth + (IF render.err = "none" THEN 0 ELSE 1)
    /\ painted_gen' = <<cubes_gen, points_gen>>
    /\ UNCHANGED <<camera, interaction, scene, timer, projection, segment,
                   wheel_sum, demo>>

\* variant: the height is used as it comes
effective_height_unclamped(h) == h

\* if h == 0: h = 1
effective_height(h) == IF h = 0 THEN 1 ELSE h

\* resizeGL(w, h): glViewport(0, 0, w, h), then gluPerspective(45, w / h, ...);
\* a zero divisor raises after the viewport is set
resizeGL(w, h) ==
    /\ Handled("resizeGL",
               IF effective_height(h) = 0 THEN "ZeroDivisionError" ELSE "none")
    /\ projection' =
          [viewport |-> <<0, 0, w, effective_height(h)>>,
           aspect |-> IF effective_height(h) = 0
                      THEN projection.aspect
                      ELSE <<w, effective_height(h)>>]
    /\ UNCHANGED <<camera, interaction, scene, timer, frame, gl_depth, segment,
                   wheel_sum, demo, painted_gen>>

\* render_timer.timeout -> update() -> paintGL
render_timer_timeout ==
    /\ timer_active
    /\ paintGL

\* the window system asks for a repaint (show, expose)
paintEvent == paintGL

(***************************************************************************)
(* The demo harness: Q3DViewer.generate_things, run by a 100 ms timer.     *)
(***************************************************************************)
\* the i-th cube of call g: the random position, rotation, size and color
\* are values of their ranges that differ from call to call
random_cube(g, i) ==
    Cube(<<g, i, 0>>, <<3, 1, 2>>, <<90 * i, 0, 180>>, <<1, 0, 1>>)

random_group(g, n, color) ==
    GroupPoints([j \in 1..n |-> <<g, j, -j>>], color)

\* variant: an empty cube list is not passed on
generate_things_skipping_empty(num_cubes, num_points) ==
    /\ Handled("generate_things", "none")
    /\ generation' = generation + 1
    /\ IF num_cubes = 0
       THEN UNCHANGED <<cubes, cubes_gen>>
       ELSE set_cube([i \in 1..num_cubes |-> random_cube(generation + 1, i)],
                     generation + 1)
    /\ set_points(<< random_group(generation + 1, num_points, <<1, 0, 0>>),
                     random_group(generation + 1, num_points, <<0, 1, 0>>),
                     random_group(generation + 1, num_points, <<0, 0, 1>>) >>,
                  generation + 1)
    /\ UNCHANGED <<camera, interaction, timer, gl, segment, wheel_sum, painted_gen>>

\* generate_things with the sliders at num_cubes and 3 * num_points
generate_things(num_cubes, num_points) ==
    /\ Handled("generate_things", "none")
    /\ generation' = generation + 1
    /\ set_cube([i \in 1..num_cubes |-> random_cube(generation + 1, i)],
                generation + 1)
    /\ set_points(<< random_group(generation + 1, num_points, <<1, 0, 0>>),
                     random_group(generation + 1, num_points, <<0, 1, 0>>),
                     random_group(generation + 1, num_points, <<0, 0, 1>>) >>,
                  generation + 1)
    /\ UNCHANGED <<camera, interaction, timer, gl, segment, wheel_sum, painted_gen>>

(***************************************************************************)
(* Specifications.                                                         *)
(***************************************************************************)
\* a pointer or wheel event, while fewer than n handlers have run
MouseEvent(n) ==
    \/ \E b \in Buttons, p \in Positions : steps < n /\ mousePressEvent(b, p)
    \/ \E p \in Positions : steps < n /\ mouseMoveEvent(p)
    \/ \E b \in Buttons : steps < n /\ mouseReleaseEvent(b)
    \/ \E d \in WheelDeltas : steps < n /\ wheelEvent(d)

\* the widget driven by its host and by any caller of its setters
Next ==
    \/ MouseEvent(MaxEvents)
    \/ \E cs \in CubeLists : steps < MaxEvents /\ call_set_cube(cs)
    \/ \E gs \in PointLists : steps < MaxEvents /\ call_set_points(gs)
    \/ \E f \in FPSValues : steps < MaxEvents /\ change_FPS(f)
    \/ steps < MaxEvents /\ render_timer_timeout
    \/ steps < MaxEvents /\ paintEvent

Spec == Init /\ [][Next]_vars

\* the widget in a window that is also resized
NextWindow ==
    \/ MouseEvent(MaxWindowEvents)
    \/ \E cs \in CubeLists : steps < MaxWindowEvents /\ call_set_cube(cs)
    \/ \E gs \in PointLists : steps < MaxWindowEvents /\ call_set_points(gs)
    \/ \E f \in FPSValues : steps < MaxWindowEvents /\ change_FPS(f)
    \/ \E v \in ViewSizes : steps < MaxWindowEvents /\ resizeGL(v[1], v[2])
    \/ steps < MaxWindowEvents /\ render_timer_timeout
    \/ steps < MaxWindowEvents /\ paintEvent

SpecWindow == Init /\ [][NextWindow]_vars

\* the pointer and the wheel alone
NextMouse == MouseEvent(MaxMouseEvents)

SpecMouse == Init /\ [][NextMouse]_vars

\* the demo application: the generator timer, the render timer, the mouse
NextDemo ==
    \/ \E nc \in 0..MaxCubes, np \in 0..1 :
          steps < MaxEvents /\ generate_things(nc, np)
    \/ steps < MaxEvents /\ render_timer_timeout
    \/ steps < MaxEvents /\ paintEvent
    \/ MouseEvent(MaxEvents)

SpecDemo == Init /\ [][NextDemo]_vars

\* the 3-component sizes a caller may give a cube: zero, negative, positive
Sizes == (-MaxSize..MaxSize) \X (-MaxSize..MaxSize) \X (-MaxSize..MaxSize)

\* a caller stores one cube of any 3-component size, and the widget redraws
NextCube ==
    \/ \E size \in Sizes :
          /\ steps < MaxCubeEvents
          /\ call_set_cube(<< Cube(<<0, 0, 0>>, size, DefaultRotation, DefaultColor) >>)
    \/ steps < MaxCubeEvents /\ paintEvent

SpecCube == Init /\ [][NextCube]_vars

(***************************************************************************)
(* What a segment of pointer-moves did to the camera, measured from the   *)
(* segment's start; the sums are over the moves of the segment.            *)
(***************************************************************************)
\* the net change of the angles since the segment started
AngleChange == <<angle_x - segment.camera0[1], angle_y - segment.camera0[2]>>
\* the net change of the pan offsets, in units of 1/PanScale
PanChange == <<translate_x - segment.camera0[3], translate_y - segment.camera0[4]>>
\* the net displacement of the pointer over the segment
Displacement == <<segment.at[1] - segment.p0[1], segment.at[2] - segment.p0[2]>>

\* the moves rotated: angle_x by the vertical deltas, angle_y by the
\* horizontal ones
Rotated ==
    /\ AngleChange = <<segment.sum_dy, segment.sum_dx>>
    /\ AngleChange = <<Displacement[2], Displacement[1]>>
\* the moves panned: translate_x by 0.1 x the horizontal deltas, translate_y
\* by -0.1 x the vertical ones
Panned ==
    /\ 10 * PanChange[1] = PanScale * segment.sum_dx
    /\ 10 * PanChange[2] = -(PanScale * segment.sum_dy)
OnlyLeftHeld == mouse_pressed /\ ~right_mouse_pressed
OnlyRightHeld == right_mouse_pressed /\ ~mouse_pressed
BothHeld == mouse_pressed /\ right_mouse_pressed
NoneHeld == ~mouse_pressed /\ ~right_mouse_pressed

(***************************************************************************)
(* Claims.                                                                 *)
(***************************************************************************)
\* C1: after a left-press at p0 with only the left button held, whatever
\* moves p1..pn follow, angle_x has changed by the sum of the vertical
\* per-step deltas (= yn - y0), angle_y by the sum of the horizontal ones
\* (= xn - x0), and the reference position is the last move's position.
C1_RotationIsSumOfDeltas ==
    (segment.cause = "press" /\ segment.button = "left" /\ OnlyLeftHeld)
        => /\ Rotated
           /\ last_mouse_position = segment.at

\* a left drag of three moves that turned the camera about both axes
C1_Witness ==
    /\ segment.cause = "press" /\ segment.button = "left" /\ OnlyLeftHeld
    /\ segment.moves = 3
    /\ AngleChange[1] # 0 /\ AngleChange[2] # 0
    /\ AngleChange[1] # AngleChange[2]

\* C2: after a right-press with only the right button held, the moves add
\* 0.1 x the horizontal deltas to translate_x and -0.1 x the vertical deltas
\* to translate_y, and leave angle_x, angle_y and zoom as they were (zoom
\* moves only by the wheel deltas received meanwhile).
C2_PanIsScaledSumOfDeltas ==
    (segment.cause = "press" /\ segment.button = "right" /\ OnlyRightHeld)
        => /\ Panned
           /\ AngleChange = <<0, 0>>
           /\ zoom - segment.camera0[5] = wheel_sum - segment.wheel0

\* a right drag of three moves that panned along both axes
C2_Witness ==
    /\ segment.cause = "press" /\ segment.button = "right" /\ OnlyRightHeld
    /\ segment.moves = 3
    /\ PanChange[1] # 0 /\ PanChange[2] # 0

\* C3 as stated: with both buttons held, the moves act for the button pressed
\* last: they pan after a right-press with left held, and rotate after a
\* left-press with right held.
C3_LastPressedWins ==
    (segment.cause = "press" /\ segment.other_held /\ BothHeld)
        => IF segment.button = "right"
           THEN Panned /\ AngleChange = <<0, 0>>
           ELSE Rotated /\ PanChange = <<0, 0>>

\* C3, amended: with both buttons held the moves rotate, whichever button
\* was pressed last: after a left-press with right held, and also after a
\* right-press with left held (the left button has priority).
C3_LeftHasPriority ==
    (segment.cause = "press" /\ segment.other_held /\ BothHeld)
        => /\ Rotated
           /\ PanChange = <<0, 0>>
           /\ last_mouse_position = segment.at

\* left held, right pressed, and the moves that followed rotated
C3_Witness ==
    /\ segment.cause = "press" /\ segment.button = "right"
    /\ segment.other_held /\ BothHeld
    /\ segment.moves >= 1
    /\ AngleChange[1] # 0 /\ AngleChange[2] # 0

\* the moves changed nothing: no camera field of the pointer, and not the
\* reference position
Still ==
    /\ AngleChange = <<0, 0>>
    /\ PanChange = <<0, 0>>
    /\ last_mouse_position = segment.p0

\* whether button b is held
held(b) ==
    IF b = "left" THEN mouse_pressed
    ELSE IF b = "right" THEN right_mouse_pressed ELSE FALSE

\* the state of the widget, without the histories
widget == <<camera, interaction, scene, timer, gl>>

\* C4, after a release: with the other button still held the moves act for
\* it (they pan after a left-release, rotate after a right-release); with no
\* button left held the moves change no camera field.
C4_AfterRelease ==
    segment.cause = "release" =>
        /\ (segment.button = "left" /\ segment.other_held)
              => (OnlyRightHeld /\ Panned /\ AngleChange = <<0, 0>>)
        /\ (segment.button = "right" /\ segment.other_held)
              => (OnlyLeftHeld /\ Rotated /\ PanChange = <<0, 0>>)
        /\ ~segment.other_held => (NoneHeld /\ Still)

\* C4, the release itself: it clears the flag of its button only, and the
\* release of a button that is not held changes nothing.
C4_ReleaseStep ==
    \A b \in Buttons :
        mouseReleaseEvent(b) =>
            /\ ~held(b)'
            /\ \A o \in Buttons \ {b} : held(o)' = held(o)
            /\ ~held(b) => UNCHANGED widget

\* C4: releasing a button ends only that button's branch.
C4_ReleaseEndsOnlyItsBranch == [](C4_AfterRelease) /\ [][C4_ReleaseStep]_vars

\* both were held, left was released, and the moves that followed panned
C4_Witness ==
    /\ segment.cause = "release" /\ segment.button = "left" /\ segment.other_held
    /\ segment.moves >= 1
    /\ PanChange[1] # 0 /\ PanChange[2] # 0

\* C5, one wheel event: zoom moves by delta x 0.001 and the button flags, the
\* reference position, the angles and the pan offsets stay.
C5_WheelStep ==
    \A d \in WheelDeltas :
        wheelEvent(d) =>
            /\ 1000 * (zoom' - zoom) = ZoomScale * d
            /\ UNCHANGED <<mouse_pressed, right_mouse_pressed, last_mouse_position,
                           angle_x, angle_y, translate_x, translate_y>>

\* C5, any sequence: zoom is its initial -8 plus 0.001 x the sum of the
\* wheel deltas, whatever else was interleaved.
C5_ZoomIsSumOfWheel == 1000 * (zoom - (-8 * ZoomScale)) = ZoomScale * wheel_sum

\* C5: the wheel zooms by delta x 0.001 in every interaction state.
C5_WheelAlwaysZooms == [](C5_ZoomIsSumOfWheel) /\ [][C5_WheelStep]_vars

\* a wheel event received with both buttons held, after moves
C5_Witness ==
    /\ last_handler = "wheelEvent"
    /\ BothHeld
    /\ segment.moves >= 1
    /\ wheel_sum # 0

\* C6: a left or right press records its position as the reference, and the
\* first move after it changes the camera by (move position - press
\* position), whatever positions were seen before the press.
C6_PressRecordsReference ==
    segment.cause = "press" =>
        /\ segment.moves = 0 => last_mouse_position = segment.p0
        /\ segment.moves = 1 =>
              IF mouse_pressed
              THEN AngleChange = <<Displacement[2], Displacement[1]>>
                   /\ PanChange = <<0, 0>>
              ELSE 10 * PanChange[1] = PanScale * Displacement[1]
                   /\ 10 * PanChange[2] = -(PanScale * Displacement[2])
                   /\ AngleChange = <<0, 0>>

\* the scenario: press left (100,100), move (110,115), release, press right
\* (50,50), move (60,40): angle_x 15, angle_y 10, pan 1.0 and 1.0
C6_Witness ==
    /\ segment.cause = "press" /\ segment.button = "right"
    /\ segment.p0 = <<50, 50>> /\ segment.at = <<60, 40>> /\ segment.moves = 1
    /\ angle_x = 15 /\ angle_y = 10
    /\ translate_x = 1 * PanScale /\ translate_y = 1 * PanScale

\* C7 as stated: a middle-button press completes normally (and leaves the
\* widget as it was).
C7_MiddlePressCompletes ==
    [][\A p \in Positions :
          mousePressEvent("middle", p) => (error' = "none" /\ UNCHANGED widget)]_vars

\* the places of frame f that hold a call of op in mode
Places(f, op, mode) == { i \in DOMAIN f : f[i].op = op /\ f[i].mode = mode }
\* the wireframe boxes and the point batches drawn in frame f
Boxes(f) == Places(f, "glDrawArrays", "GL_LINES")
Batches(f) == Places(f, "glDrawArrays", "GL_POINTS")

\* C8, set_cube: the stored cube list becomes the argument whatever it was,
\* and points, camera, interaction state and timer stay.
C8_SetCubeStep ==
    \A cs \in CubeLists :
        call_set_cube(cs) =>
            /\ cubes' = cs
            /\ UNCHANGED <<points, camera, interaction, timer>>

\* C8, set_points: the same for the stored point groups.
C8_SetPointsStep ==
    \A gs \in PointLists :
        call_set_points(gs) =>
            /\ points' = gs
            /\ UNCHANGED <<cubes, camera, interaction, timer>>

\* C8: each setter replaces its own list wholesale and changes nothing else.
C8_SettersReplaceOwnList == [][C8_SetCubeStep /\ C8_SetPointsStep]_vars

\* set_cube([YellowCube]) on a widget that held (and has drawn) two cubes,
\* with the camera zoomed
C8_Witness ==
    /\ last_handler = "set_cube"
    /\ cubes = <<YellowCube>>
    /\ Cardinality(Boxes(frame)) = 2
    /\ wheel_sum # 0

\* C9: in the demo the stored cubes and the stored points are always those
\* of the same, latest generate_things call, complete (3 point groups), and
\* every redraw has read both lists of one call and drawn one box per cube.
C9_RedrawSeesOneGeneration ==
    /\ cubes_gen = generation
    /\ points_gen = generation
    /\ painted_gen[1] = painted_gen[2]
    /\ generation > 0 => Len(points) = 3
    /\ last_handler = "paintGL"
          => (error = "none" /\ Cardinality(Boxes(frame)) = Len(cubes))

\* a redraw that follows the second generate_things call and draws its cubes
C9_Witness ==
    /\ last_handler = "paintGL"
    /\ painted_gen = <<2, 2>>
    /\ Cardinality(Boxes(frame)) >= 1

\* the place in frame f of the k-th call among the places P
Nth(P, k) == CHOOSE i \in P : Cardinality({ j \in P : j <= i }) = k
\* where the camera transform and the axes end in a frame
AxesEnd == 1 + Len(camera_transform) + Len(draw_axes)
\* the places where a cube's transform is pushed, and where a point group's
\* color is set (a glColor3f after the axes that is not a cube's)
Pushes(f) == Places(f, "glPushMatrix", "")
GroupColors(f) ==
    { i \in Places(f, "glColor3f", "") : i > AxesEnd /\ f[i - 1].op # "glTranslatef" }

\* C10 as stated: right after a redraw the frame is: clear, the camera
\* transform, the axes, then one box per stored cube in list order, then the
\* stored point groups in list order.
C10_DrawOrder ==
    last_handler = "paintGL" =>
        /\ Len(frame) >= AxesEnd
        /\ frame[1].op = "glClear"
        /\ SubSeq(frame, 2, 1 + Len(camera_transform)) = camera_transform
        /\ SubSeq(frame, 2 + Len(camera_transform), AxesEnd) = draw_axes
        /\ Cardinality(Pushes(frame)) = Len(cubes)
        /\ Cardinality(Boxes(frame)) = Len(cubes)
        /\ \A k \in 1..Len(cubes) :
              /\ frame[Nth(Pushes(frame), k) + 1] = Call("glTranslatef", cubes[k].position)
              /\ Nth(Pushes(frame), k) < Nth(Boxes(frame), k)
              /\ k < Len(cubes) => Nth(Boxes(frame), k) < Nth(Pushes(frame), k + 1)
        /\ Cardinality(GroupColors(frame)) = Len(points)
        /\ \A k \in 1..Len(points) :
              frame[Nth(GroupColors(frame), k)] = Call("glColor3f", points[k].color)
        /\ \A b \in Boxes(frame) : b > AxesEnd
        /\ \A b \in Boxes(frame), g \in GroupColors(frame) \cup Batches(frame) : b < g
        /\ cubes = << >> => Boxes(frame) = {}

\* the groups of gs that hold at least one point, in order
HasPoints(g) == Len(g.points) > 0
NonEmptyGroups(gs) == SelectSeq(gs, HasPoints)

\* C11 as stated: right after a redraw, the frame holds one point batch per
\* non-empty stored group, in order, each with all the group's points and
\* point size 2.0; an empty group has its color set and nothing else: no
\* point size, no vertex-array state, no batch; groups after it are drawn.
C11_PointGroupsDrawn ==
    last_handler = "paintGL" =>
        LET drawn == NonEmptyGroups(points)
            batches == Batches(frame)
        IN /\ Cardinality(batches) = Len(drawn)
           /\ Cardinality(Places(frame, "glPointSize", "")) = Len(drawn)
           /\ Cardinality(Places(frame, "glEnableClientState", ""))
                 = Cardinality(Boxes(frame)) + Len(drawn)
           /\ Cardinality(GroupColors(frame)) = Len(points)
           /\ \A k \in 1..Len(drawn) :
                 LET i == Nth(batches, k)
                 IN /\ frame[i].args = <<0, Len(drawn[k].points)>>
                    /\ frame[i - 1].op = "glVertexPointer"
                    /\ frame[i - 1].verts = drawn[k].points
                    /\ frame[i - 3] = Call("glPointSize", <<2>>)

\* the sign pattern of the k-th corner of draw_cube: its coordinates for a
\* box of half-extent 1
SignPattern(k) == vertices(<<1, 1, 1>>)[k]
\* the axes in which corners k1 and k2 differ
DifferingAxes(k1, k2) == { a \in 1..3 : SignPattern(k1)[a] # SignPattern(k2)[a] }
\* the edges of draw_cube that end in corner k
EdgesAt(k) == { j \in DOMAIN edges : edges[j][1] = k \/ edges[j][2] = k }

\* C12: the box drawn for a cube of 3-component size s (zero and negative
\* components included) is 24 line vertices, 12 edges over the 8 corners
\* (+-s[0]/2, +-s[1]/2, +-s[2]/2): each edge joins two corners whose sign
\* patterns differ in exactly one axis, each corner ends exactly 3 edges,
\* and no edge is repeated.  (Coordinates are in units of 1/2.)
C12_BoxTopology ==
    (last_handler = "paintGL" /\ Len(cubes) = 1) =>
        /\ error = "none"
        /\ Cardinality(Boxes(frame)) = 1
        /\ LET size == cubes[1].size
               box == Nth(Boxes(frame), 1)
               drawn == frame[box - 1].verts
           IN /\ frame[box].args = <<0, 24>>
              /\ frame[box - 1].op = "glVertexPointer"
              /\ Len(drawn) = 24
              /\ Len(edges) = 12
              /\ { SignPattern(k) : k \in 1..8 } = {-1, 1} \X {-1, 1} \X {-1, 1}
              /\ \A j \in 1..12 :
                    /\ edges[j][1] \in 1..8 /\ edges[j][2] \in 1..8
                    /\ Cardinality(DifferingAxes(edges[j][1], edges[j][2])) = 1
                    /\ \A a \in 1..3 :
                          /\ drawn[2 * j - 1][a] = SignPattern(edges[j][1])[a] * size[a]
                          /\ drawn[2 * j][a] = SignPattern(edges[j][2])[a] * size[a]
              /\ \A k \in 1..8 : Cardinality(EdgesAt(k)) = 3
              /\ \A j1, j2 \in 1..12 :
                    j1 # j2 => {edges[j1][1], edges[j1][2]} # {edges[j2][1], edges[j2][2]}

\* a cube with a negative and a zero size component, drawn as one box
C12_Witness ==
    /\ last_handler = "paintGL"
    /\ Len(cubes) = 1
    /\ cubes[1].size = <<-2, 0, 2>>
    /\ Cardinality(Boxes(frame)) = 1

\* C13 as stated: after change_FPS(F) with F > 0 the one render timer is
\* active and its interval is 1000/F milliseconds.
C13_IntervalIsExactQuotient ==
    [][\A f \in FPSValues :
          (f > 0 /\ change_FPS(f)) => (timer_active' /\ timer_interval' * f = 1000)]_vars

\* C13, amended, one call: after change_FPS(F) with F > 0, whatever the
\* timer was before, it is active and its interval is the whole number of
\* milliseconds in 1000/F (the fraction is dropped).
C13_RestartStep ==
    \A f \in FPSValues :
        (f > 0 /\ change_FPS(f)) =>
            /\ timer_active'
            /\ timer_interval' * f <= 1000
            /\ 1000 < (timer_interval' + 1) * f

\* C13, amended, any sequence: an active timer stays active under every
\* handler but a change_FPS(0).
C13_StaysActive == (timer_active /\ ~change_FPS(0)) => timer_active'

\* C13, amended: the timer is active after construction, and the two above.
C13_TimerRestartedWithWholeInterval ==
    /\ [](steps = 0 => (timer_active /\ timer_interval = 16))
    /\ [][C13_RestartStep /\ C13_StaysActive]_vars

\* change_FPS(30) has restarted the timer, which ran at the initial 16 ms or
\* had been stopped, with 33 ms
C13_Witness ==
    /\ last_handler = "change_FPS"
    /\ error = "none"
    /\ timer_active
    /\ timer_interval = 33

\* C14, the frame of a redraw: after the clear it resets the transform and
\* applies translate(translate_x, translate_y, zoom), rotate angle_x about
\* X, rotate angle_y about Y, with the camera fields as they are at that
\* redraw: every wheel event handled so far is in the zoom it uses.
C14_FrameUsesCurrentCamera ==
    last_handler = "paintGL" =>
        /\ Len(frame) >= 5
        /\ frame[2] = Call("glLoadIdentity", << >>)
        /\ frame[3] = Call("glTranslatef", <<translate_x, translate_y, zoom>>)
        /\ frame[4] = Call("glRotatef", <<angle_x, 1, 0, 0>>)
        /\ frame[5] = Call("glRotatef", <<angle_y, 0, 1, 0>>)
        /\ 1000 * (frame[3].args[3] - (-8 * ZoomScale)) = ZoomScale * wheel_sum
        /\ Places(frame, "glLoadIdentity", "") = {2}

\* C14, the events after a redraw: only a redraw changes what is drawn.
C14_OnlyRedrawDraws == (frame' # frame) => (last_handler' = "paintGL")

\* C14: a redraw shows the camera as the events before it left it, and no
\* event after it.
C14_RedrawShowsEventsSoFar ==
    [](C14_FrameUsesCurrentCamera) /\ [][C14_OnlyRedrawDraws]_vars

\* a redraw after a left drag by (10, 15) and a wheel event
C14_Witness ==
    /\ last_handler = "paintGL"
    /\ angle_x = 15 /\ angle_y = 10
    /\ wheel_sum # 0
    /\ frame[4].args[1] = 15

\* C15: resizeGL(w, h) with h >= 0 raises nothing, and the height of the
\* viewport and of the aspect ratio w/height is 1 for h = 0 and h otherwise.
C15_ResizeStep ==
    \A v \in ViewSizes :
        resizeGL(v[1], v[2]) =>
            LET height == IF v[2] = 0 THEN 1 ELSE v[2]
            IN /\ error' = "none"
               /\ projection'.viewport = <<0, 0, v[1], height>>
               /\ projection'.aspect = <<v[1], height>>

C15_ResizeFloorsHeight == [][C15_ResizeStep]_vars

\* the window was resized to height 0 and the viewport has height 1
C15_Witness ==
    /\ last_handler = "resizeGL"
    /\ error = "none"
    /\ projection.viewport = <<0, 0, 4, 1>>
    /\ projection.aspect = <<4, 1>>

\* the matrices pushed and not yet popped before place k of frame f
OpenAt(f, k) ==
    Cardinality({ i \in Pushes(f) : i < k })
        - Cardinality({ i \in Places(f, "glPopMatrix", "") : i < k })

\* C16 as stated: in every redraw each cube's push is popped before the next
\* cube and before any point group, so every cube and every point batch
\* starts under the camera transform alone, what a cube translates or
\* rotates is inside its own push and pop, and no pushed matrix is left on
\* the stack at the end of a redraw.
C16_PushPopBalanced ==
    /\ gl_depth = 0
    /\ last_handler = "paintGL" =>
          /\ OpenAt(frame, Len(frame) + 1) = 0
          /\ \A i \in Pushes(frame) : OpenAt(frame, i) = 0
          /\ \A i \in Batches(frame) : OpenAt(frame, i) = 0
          /\ \A i \in DOMAIN frame :
                (i > AxesEnd /\ frame[i].op \in {"glTranslatef", "glRotatef"})
                    => OpenAt(frame, i) = 1

\* C17, one pointer-move: it does not change both the angles and the pan
\* offsets; it changes the angles only with left held, the pan offsets only
\* with right held; with no button held it changes neither the camera nor
\* the reference position.
C17_MoveStep ==
    \A p \in Positions :
        mouseMoveEvent(p) =>
            /\ ~(/\ <<angle_x, angle_y>>' # <<angle_x, angle_y>>
                 /\ <<translate_x, translate_y>>' # <<translate_x, translate_y>>)
            /\ (<<angle_x, angle_y>>' # <<angle_x, angle_y>>) => mouse_pressed
            /\ (<<translate_x, translate_y>>' # <<translate_x, translate_y>>)
                  => right_mouse_pressed
            /\ NoneHeld => UNCHANGED <<camera, last_mouse_position>>

C17_MoveRotatesOrPansOrIdles == [][C17_MoveStep]_vars

\* a move with both buttons held has rotated and has not panned
C17_Witness ==
    /\ last_handler = "mouseMoveEvent"
    /\ BothHeld
    /\ segment.moves = 1
    /\ AngleChange = <<15, 10>>
    /\ PanChange = <<0, 0>>

\* the handlers that are neither a pointer-move nor a wheel event, and the
\* handlers that are not a setter
KeepCamera ==
    { "mousePressEvent", "mouseReleaseEvent", "set_cube", "set_points",
      "change_FPS", "resizeGL", "paintGL" }
KeepScene ==
    { "paintGL", "resizeGL", "mousePressEvent", "mouseMoveEvent",
      "mouseReleaseEvent", "wheelEvent" }

\* C18, construction: the angles and the pan offsets are 0 and zoom is -8.
C18_StartsAtRest ==
    steps = 0 => camera = <<0, 0, 0, 0, -8 * ZoomScale>>

\* C18, one step: the angles and the pan offsets change only in a
\* pointer-move, by the pointer's delta added to their current value; zoom
\* changes only in a wheel event, by the wheel's delta added to its current
\* value; press, release, set_cube, set_points, change_FPS, resize and redraw
\* leave the five camera fields as they are; redraw, resize and the pointer
\* and wheel events leave the stored cubes and points as they are.
C18_Step ==
    /\ (<<angle_x, angle_y, translate_x, translate_y>>'
            # <<angle_x, angle_y, translate_x, translate_y>>)
          => last_handler' = "mouseMoveEvent"
    /\ (zoom' # zoom) => last_handler' = "wheelEvent"
    /\ \A p \in Positions :
          mouseMoveEvent(p) =>
              LET dx == p[1] - last_mouse_position[1]
                  dy == p[2] - last_mouse_position[2]
              IN /\ <<angle_x, angle_y>>'
                       \in { <<angle_x, angle_y>>, <<angle_x + dy, angle_y + dx>> }
                 /\ 10 * (translate_x' - translate_x) \in { 0, PanScale * dx }
                 /\ 10 * (translate_y' - translate_y) \in { 0, -(PanScale * dy) }
    /\ \A d \in WheelDeltas :
          wheelEvent(d) => 1000 * (zoom' - zoom) = ZoomScale * d
    /\ (last_handler' \in KeepCamera) => UNCHANGED camera
    /\ (last_handler' \in KeepScene) => UNCHANGED scene

C18_OnlyDesignatedEventsChangeState ==
    [](C18_StartsAtRest) /\ [][C18_Step]_vars

\* the view was rotated by a drag and a redraw has left it rotated
C18_Witness ==
    /\ last_handler = "paintGL"
    /\ <<angle_x, angle_y>> = <<15, 10>>
    /\ <<translate_x, translate_y, zoom>> = <<0, 0, -8 * ZoomScale>>

\* C19 as stated: a redraw with Cube(position) of the default size, rotation
\* and color in the stored list raises nothing and draws one wireframe box
\* for each stored cube.
C19_DefaultCubeIsDrawn ==
    (/\ last_handler = "paintGL"
     /\ \E k \in DOMAIN cubes : cubes[k] = PositionOnlyCube)
        => /\ error = "none"
           /\ Cardinality(Boxes(frame)) = Len(cubes)

\* C20 as stated: change_FPS(0) on a running timer leaves the timer active
\* with the interval it had.
C20_FailedChangeStep ==
    (change_FPS(0) /\ timer_active)
        => (timer_active' /\ timer_interval' = timer_interval)

C20_FailedChangeKeepsClock == [][C20_FailedChangeStep]_vars

=============================================================================
